---- MODULE Spec2Model ----
(***************************************************************************)
(* The ChatWindow component of src/src/lib/firebase.ts as a state machine: *)
(* the draft, the local typing flag with its 5 s expiry timer, the 1 s     *)
(* debounce of that flag, the typing callback, the send pipeline and the   *)
(* loading of the conversation, the message list with its grouping flags   *)
(* and scroll effect, and the two notification functions of the same file. *)
(* One action per event handler, timer                                     *)
(* callback or data-hook update; each action includes the re-render and    *)
(* the effects that React runs after it.  Time is discrete: one Tick is    *)
(* one second, and a timer that is due fires before the next Tick.         *)
(***************************************************************************)
EXTENDS Integers, Sequences, FiniteSets

\* ------------------------------------------------------------------ bounds
MaxLen == 2          \* longest draft text
MaxTimers == 3       \* handles window.setTimeout hands to handleInputChange
MaxRefetch == 1      \* refetches of the conversation object
MaxInflight == 1     \* sends in flight when the form is submitted directly
MaxSwitch == 1       \* changes of the conversationId prop
MaxMsgs == 3         \* longest message list

\* --------------------------------------------------------------- constants
TypingExpiry == 5    \* seconds, setTimeout(..., 5000)
DebounceDelay == 1   \* seconds, useDebounce(isTyping, 1000)

SeparatorGap == 600  \* seconds, showTimeSeparator
ContinuityGap == 300 \* seconds, continiousTop / continiousBottom

\* recipientId values, and the gaps in milliseconds between the createdAt of
\* consecutive messages: around 300 s and around 600 s
Recipients == {1, 2}
Gaps == {299500, 300000, 600000, 600500, 601000}

\* e.target.value: texts over a space and a letter
Chars == {" ", "a"}
Strings == UNION {[1..n -> Chars] : n \in 0..MaxLen}
\* the clocks the properties read stop at these values
ClockCap == TypingExpiry + DebounceDelay + 1
OwedCap == DebounceDelay + 1
NoConversation == 0

VARIABLES
  newMessage,            \* useState('')
  isTyping,              \* useState(false)
  isTypingTimeoutID,     \* useState(0)
  debouncedTyping,       \* useDebounce(isTyping, 1000)
  debounceLeft,          \* the debounce timer: {} if none, {seconds left} if armed
  timers,                \* armed typing-expiry timers: records [id, left]
  nextTimerID,           \* the handle the next window.setTimeout returns
  conversation,          \* useConversation().data: 0 = null, k = k-th object
  isConversationLoading,
  isMessagesLoading,
  requests,              \* sendMessage mutations in flight
  isPending,             \* sendMessage.isPending
  markAsReadCalls,       \* markAsRead.mutate() calls since conversationId was set
  cb,                    \* onIsTypingChange calls made by the last step
  ev,                    \* the last step
  acked,                 \* text of the request the last step acknowledged
  sinceKey,              \* seconds since the last keystroke with content (capped)
  sentSinceKey,          \* a send was submitted since that keystroke
  owed,                  \* {seconds since the draft went from blank to text and
                         \* stayed so with no call of the callback}, else {}
  conversationId,        \* the conversationId prop: the k-th id selected
  messages,              \* useMessages().messages (<<>> while not loaded)
  recipientTyping,       \* the recipientTyping prop
  scrolls,               \* scrollIntoView calls made by the last step
  notify                 \* the notification call in progress, or its result

vars == <<newMessage, isTyping, isTypingTimeoutID, debouncedTyping, debounceLeft,
          timers, nextTimerID, conversation, isConversationLoading,
          isMessagesLoading, requests, isPending, markAsReadCalls, cb, ev, acked,
          sinceKey, sentSinceKey, owed, conversationId, messages,
          recipientTyping, scrolls, notify>>

\* what the typing and send actions leave alone
props == <<conversationId, recipientTyping, notify>>

\* ------------------------------------------------------------ pure helpers
RECURSIVE TrimLeft(_)
TrimLeft(s) == IF s # <<>> /\ Head(s) = " " THEN TrimLeft(Tail(s)) ELSE s

RECURSIVE TrimRight(_)
TrimRight(s) ==
  IF s # <<>> /\ s[Len(s)] = " " THEN TrimRight(SubSeq(s, 1, Len(s) - 1)) ELSE s

\* String.prototype.trim
trim(s) == TrimRight(TrimLeft(s))

\* clearTimeout(id): the timer with that handle, if armed, is disarmed
clearTimeout(ts, id) == {t \in ts : t.id # id}

\* window.setTimeout(f, ms) under handle id
setTimeout(ts, id, secs) == ts \cup {[id |-> id, left |-> secs]}

\* handleInputChange forgets clearTimeout: the earlier timer stays armed
RearmNoClear(ts, oldId, newId) == setTimeout(ts, newId, TypingExpiry)

\* handleInputChange starts a timer only when none is running
RearmIfIdle(ts, oldId, newId) ==
  IF ts = {} THEN setTimeout(ts, newId, TypingExpiry) ELSE ts

\* handleInputChange never starts the expiry timer
RearmClearOnly(ts, oldId, newId) == clearTimeout(ts, oldId)

\* clearTimeout(isTypingTimeoutID); window.setTimeout(..., 5000)
RearmExpiry(ts, oldId, newId) ==
  setTimeout(clearTimeout(ts, oldId), newId, TypingExpiry)

\* useDebounce's effect: a change of the value restarts the 1 s timer
DebounceRearm(old, new, left) == IF new # old THEN {DebounceDelay} ELSE left

\* the typing effect tests the draft untrimmed
TypingEffectRaw(conv, deb, msg) ==
  IF conv = NoConversation \/ ~deb \/ msg = <<>> THEN <<>> ELSE <<deb>>

\* the typing effect (what it passes to onIsTypingChange)
TypingEffect(conv, deb, msg) ==
  IF conv = NoConversation \/ ~deb \/ trim(msg) = <<>> THEN <<>> ELSE <<deb>>

\* the markAsRead effect
MarkAsReadEffect(conv, n) == IF conv # NoConversation THEN n + 1 ELSE n

\* the Loading return tests the conversation's loading flag only
ViewIgnoresMessages ==
  IF isConversationLoading THEN "Loading"
  ELSE IF conversation = NoConversation THEN "NotFound" ELSE "Ready"

\* what the component returns: the two early returns, then the chat
View ==
  IF isConversationLoading \/ isMessagesLoading THEN "Loading"
  ELSE IF conversation = NoConversation THEN "NotFound" ELSE "Ready"

\* the two early returns: neither Loading nor NotFound is rendered
ViewReady ==
  ~(isConversationLoading \/ isMessagesLoading) /\ conversation # NoConversation

\* the button is disabled for a blank draft only
SubmitEnabledNoPending == trim(newMessage) # <<>>

\* the submit button's disabled attribute, negated
SubmitEnabled == ~(isPending \/ trim(newMessage) = <<>>)

\* handleSendMessage tests the draft untrimmed
SendGuardRaw(msg) == msg = <<>>

\* handleSendMessage's early return: !newMessage.trim()
SendGuard(msg) == trim(msg) = <<>>

Cap(c, m) == IF c < m THEN c + 1 ELSE m

\* messagesEndRef.current is set: the Ready view renders a non-empty list
RefAttached == ViewReady /\ messages # <<>>

\* scrollToBottom(): the scrollIntoView calls it makes
ScrollToBottom == IF RefAttached THEN 1 ELSE 0

\* date-fns differenceInSeconds(later, earlier) on millisecond timestamps:
\* the difference in seconds, truncated towards zero
differenceInSeconds(a, b) ==
  IF a >= b THEN (a - b) \div 1000 ELSE 0 - ((b - a) \div 1000)

\* the separator is shown from a gap of 600 s on
showTimeSeparatorAtLeast(ms, i) ==
  i > 1 /\ differenceInSeconds(ms[i].createdAt, ms[i - 1].createdAt) >= SeparatorGap

\* the showTimeSeparator prop of message i (the source's index is i - 1)
showTimeSeparator(ms, i) ==
  i > 1 /\ differenceInSeconds(ms[i].createdAt, ms[i - 1].createdAt) > SeparatorGap

\* the continiousTop prop of message i
continiousTop(ms, i) ==
  /\ i > 1
  /\ ms[i - 1].recipientId = ms[i].recipientId
  /\ differenceInSeconds(ms[i].createdAt, ms[i - 1].createdAt) < ContinuityGap

\* continiousBottom with the arguments of differenceInSeconds exchanged
continiousBottomSwapped(ms, i) ==
  /\ i < Len(ms)
  /\ ms[i + 1].recipientId = ms[i].recipientId
  /\ differenceInSeconds(ms[i].createdAt, ms[i + 1].createdAt) < ContinuityGap

\* the continiousBottom prop of message i
continiousBottom(ms, i) ==
  /\ i < Len(ms)
  /\ ms[i + 1].recipientId = ms[i].recipientId
  /\ differenceInSeconds(ms[i + 1].createdAt, ms[i].createdAt) < ContinuityGap

\* the list ms with one more message, g milliseconds after its last (the
\* first message is at time 0)
Arrived(ms, r, g) ==
  Append(ms, [recipientId |-> r,
              createdAt |-> IF ms = <<>> THEN 0 ELSE ms[Len(ms)].createdAt + g])

\* the message lists of at most n messages, ordered by createdAt
RECURSIVE Histories(_)
Histories(n) ==
  IF n = 0 THEN {<<>>}
  ELSE LET H == Histories(n - 1) IN
       H \cup {Arrived(h, r, g) : h \in {x \in H : Len(x) = n - 1},
                                  r \in Recipients, g \in Gaps}

\* no notification call has been made
Idle ==
  [pc |-> "idle", fn |-> "none", perm |-> "none", tok |-> "none",
   result |-> [kind |-> "none", value |-> "none"]]

Return(v) == [kind |-> "return", value |-> v]

Throw == [kind |-> "throw", value |-> "none"]

\* getFCMToken without its try/catch
getFCMTokenNoCatch(tok) == IF tok = "throw" THEN Throw ELSE Return("token")

\* getFCMToken, once getToken has settled as tok
getFCMToken(tok) == IF tok = "throw" THEN Return("null") ELSE Return("token")

\* requestNotificationPermission, once Notification.requestPermission has
\* settled as perm and, when granted, getFCMToken has ended as inner
requestNotificationPermission(perm, inner) ==
  IF perm = "throw" THEN Return("null")
  ELSE IF perm = "granted"
         THEN IF inner.kind = "throw" THEN Return("null") ELSE inner
         ELSE Return("null")

\* ------------------------------------------------------------------- Init
Init ==
  /\ newMessage = <<>>
  /\ isTyping = FALSE
  /\ isTypingTimeoutID = 0
  /\ debouncedTyping = FALSE
  /\ debounceLeft = {DebounceDelay}
  /\ timers = {}
  /\ nextTimerID = 1
  /\ conversation = NoConversation
  /\ isConversationLoading = TRUE
  /\ isMessagesLoading = TRUE
  /\ requests = <<>>
  /\ isPending = FALSE
  /\ markAsReadCalls = 0
  /\ cb = <<>>
  /\ ev = "init"
  /\ acked = <<>>
  /\ sinceKey = ClockCap
  /\ sentSinceKey = FALSE
  /\ owed = {}
  /\ conversationId = 1
  /\ messages = <<>>
  /\ recipientTyping = FALSE
  /\ scrolls = 0
  /\ notify = Idle

\* ---------------------------------------------------------------- actions
\* every value counts as non-empty
EmptyValueNever(v) == FALSE

\* handleInputChange's early return: !e.target.value
EmptyValue(v) == v = <<>>

\* handleInputChange with e.target.value = v
handleInputChange(v) ==
  /\ newMessage' = v
  /\ IF EmptyValue(v)
       THEN UNCHANGED <<isTyping, isTypingTimeoutID, timers, nextTimerID,
                        debounceLeft, sinceKey, sentSinceKey>>
       ELSE /\ nextTimerID <= MaxTimers
            /\ isTyping' = TRUE
            /\ timers' = RearmExpiry(timers, isTypingTimeoutID, nextTimerID)
            /\ isTypingTimeoutID' = nextTimerID
            /\ nextTimerID' = nextTimerID + 1
            /\ debounceLeft' = DebounceRearm(isTyping, TRUE, debounceLeft)
            /\ sinceKey' = 0
            /\ sentSinceKey' = FALSE
  /\ owed' = IF trim(v) = <<>> THEN {}
             ELSE IF trim(newMessage) = <<>> THEN {0} ELSE owed
  /\ cb' = <<>>
  /\ ev' = "key"
  /\ scrolls' = 0
  /\ UNCHANGED <<props, messages>>
  /\ acked' = <<>>
  /\ UNCHANGED <<debouncedTyping, conversation, isConversationLoading,
                 isMessagesLoading, requests, isPending, markAsReadCalls>>

\* the Input's onChange: the input is rendered in the Ready view only
InputChange ==
  /\ ViewReady
  /\ \E v \in Strings : v # newMessage /\ handleInputChange(v)

\* the callback of the 5 s timer
TimerFire ==
  \E t \in timers :
    /\ t.left = 0
    /\ timers' = timers \ {t}
    /\ isTyping' = FALSE
    /\ debounceLeft' = DebounceRearm(isTyping, FALSE, debounceLeft)
    /\ cb' = <<>>
    /\ ev' = "expire"
    /\ scrolls' = 0
    /\ UNCHANGED <<props, messages>>
    /\ acked' = <<>>
    /\ UNCHANGED <<newMessage, isTypingTimeoutID, debouncedTyping, nextTimerID,
                   conversation, isConversationLoading, isMessagesLoading,
                   requests, isPending, markAsReadCalls, sinceKey, sentSinceKey,
                   owed>>

\* the callback of the debounce timer, and the typing effect when the
\* debounced value changed
DebounceFire ==
  /\ 0 \in debounceLeft
  /\ debounceLeft' = {}
  /\ debouncedTyping' = isTyping
  /\ cb' = IF debouncedTyping' # debouncedTyping
             THEN TypingEffect(conversation, debouncedTyping', newMessage)
             ELSE <<>>
  /\ owed' = IF cb' = <<TRUE>> THEN {} ELSE owed
  /\ ev' = "debounce"
  /\ scrolls' = 0
  /\ UNCHANGED <<props, messages>>
  /\ acked' = <<>>
  /\ UNCHANGED <<newMessage, isTyping, isTypingTimeoutID, timers, nextTimerID,
                 conversation, isConversationLoading, isMessagesLoading,
                 requests, isPending, markAsReadCalls, sinceKey, sentSinceKey>>

\* one second passes; a due timer fires first
Tick ==
  /\ 0 \notin debounceLeft
  /\ \A t \in timers : t.left # 0
  /\ timers' = {[id |-> t.id, left |-> t.left - 1] : t \in timers}
  /\ debounceLeft' = {l - 1 : l \in debounceLeft}
  /\ sinceKey' = Cap(sinceKey, ClockCap)
  /\ owed' = {Cap(c, OwedCap) : c \in owed}
  /\ cb' = <<>>
  /\ ev' = "tick"
  /\ scrolls' = 0
  /\ UNCHANGED <<props, messages>>
  /\ acked' = <<>>
  /\ UNCHANGED <<newMessage, isTyping, isTypingTimeoutID, debouncedTyping,
                 nextTimerID, conversation, isConversationLoading,
                 isMessagesLoading, requests, isPending, markAsReadCalls,
                 sentSinceKey>>

\* sendMessage.mutate(text, {onSuccess}): the newest call is the one the
\* mutation result (isPending) and the onSuccess option follow
Mutate(rs, text, tid) ==
  [i \in 1..Len(rs) |-> [rs[i] EXCEPT !.latest = FALSE]]
    \o <<[text |-> text, tid |-> tid, latest |-> TRUE]>>

\* handleSendMessage
handleSendMessage ==
  /\ IF SendGuard(newMessage)
       THEN UNCHANGED <<newMessage, requests, isPending, sentSinceKey, owed>>
       ELSE /\ requests' = Mutate(requests, newMessage, isTypingTimeoutID)
            /\ isPending' = TRUE
            /\ newMessage' = <<>>
            /\ sentSinceKey' = TRUE
            /\ owed' = {}
  /\ cb' = <<>>
  /\ ev' = "submit"
  /\ scrolls' = 0
  /\ UNCHANGED <<props, messages>>
  /\ acked' = <<>>
  /\ UNCHANGED <<isTyping, isTypingTimeoutID, debouncedTyping, debounceLeft,
                 timers, nextTimerID, conversation, isConversationLoading,
                 isMessagesLoading, markAsReadCalls, sinceKey>>

\* the form submitted through its button (click, or Enter in the input)
Submit == ViewReady /\ SubmitEnabled /\ handleSendMessage

\* a submit event dispatched on the form itself
SubmitEvent ==
  /\ ViewReady
  /\ SendGuard(newMessage) \/ Len(requests) < MaxInflight
  /\ handleSendMessage

Remove(rs, i) == SubSeq(rs, 1, i - 1) \o SubSeq(rs, i + 1, Len(rs))

\* the onSuccess option of handleSendMessage, with the isTypingTimeoutID of
\* the render that submitted; its scrollToBottom() is in SendSuccess
onSuccess(r) ==
  /\ isTyping' = FALSE
  /\ timers' = clearTimeout(timers, r.tid)
  /\ debounceLeft' = DebounceRearm(isTyping, FALSE, debounceLeft)

\* the send of requests[i] is acknowledged
SendSuccess ==
  \E i \in 1..Len(requests) :
    /\ requests' = Remove(requests, i)
    /\ IF requests[i].latest
         THEN isPending' = FALSE /\ onSuccess(requests[i])
         ELSE UNCHANGED <<isPending, isTyping, timers, debounceLeft>>
    /\ cb' = <<>>
    /\ ev' = "ackOK"
    /\ scrolls' = IF requests[i].latest THEN ScrollToBottom ELSE 0
    /\ UNCHANGED <<props, messages>>
    /\ acked' = requests[i].text
    /\ UNCHANGED <<newMessage, isTypingTimeoutID, debouncedTyping, nextTimerID,
                   conversation, isConversationLoading, isMessagesLoading,
                   markAsReadCalls, sinceKey, sentSinceKey, owed>>

\* the send of requests[i] is rejected
SendFailure ==
  \E i \in 1..Len(requests) :
    /\ requests' = Remove(requests, i)
    /\ isPending' = IF requests[i].latest THEN FALSE ELSE isPending
    /\ cb' = <<>>
    /\ ev' = "ackFail"
    /\ scrolls' = 0
    /\ UNCHANGED <<props, messages>>
    /\ acked' = requests[i].text
    /\ UNCHANGED <<newMessage, isTyping, isTypingTimeoutID, debouncedTyping,
                   debounceLeft, timers, nextTimerID, conversation,
                   isConversationLoading, isMessagesLoading, markAsReadCalls,
                   sinceKey, sentSinceKey, owed>>

\* a new value of `conversation` is rendered: the effects that depend on it
ConversationEffects ==
  /\ cb' = IF conversation' # conversation
             THEN TypingEffect(conversation', debouncedTyping, newMessage)
             ELSE <<>>
  /\ markAsReadCalls' = IF conversation' # conversation
                          THEN MarkAsReadEffect(conversation', markAsReadCalls)
                          ELSE markAsReadCalls
  /\ owed' = IF cb' = <<TRUE>> THEN {} ELSE owed

\* useConversation finishes loading, with the conversation or without
ConversationLoaded ==
  /\ isConversationLoading
  /\ isConversationLoading' = FALSE
  /\ \E found \in BOOLEAN : conversation' = IF found THEN 1 ELSE NoConversation
  /\ ConversationEffects
  /\ ev' = "convLoaded"
  /\ scrolls' = 0
  /\ UNCHANGED <<props, messages>>
  /\ acked' = <<>>
  /\ UNCHANGED <<newMessage, isTyping, isTypingTimeoutID, debouncedTyping,
                 debounceLeft, timers, nextTimerID, isMessagesLoading, requests,
                 isPending, sinceKey, sentSinceKey>>

\* useMessages finishes loading with a history of H; the scroll effect runs
\* in the render that shows it
MessagesLoadedWith(H) ==
  /\ isMessagesLoading
  /\ isMessagesLoading' = FALSE
  /\ \E h \in H : messages' = h
  /\ cb' = <<>>
  /\ ev' = "msgsLoaded"
  /\ acked' = <<>>
  /\ UNCHANGED props
  /\ UNCHANGED <<newMessage, isTyping, isTypingTimeoutID, debouncedTyping,
                 debounceLeft, timers, nextTimerID, conversation,
                 isConversationLoading, requests, isPending, markAsReadCalls,
                 sinceKey, sentSinceKey, owed>>
  /\ scrolls' = ScrollToBottom'

\* useMessages finishes loading, with an empty history
MessagesLoaded == MessagesLoadedWith({<<>>})

\* useConversation refetches and returns a new conversation object
ConversationRefetch ==
  /\ ~isConversationLoading
  /\ conversation # NoConversation
  /\ conversation <= MaxRefetch
  /\ conversation' = conversation + 1
  /\ ConversationEffects
  /\ ev' = "refetch"
  /\ scrolls' = 0
  /\ UNCHANGED <<props, messages>>
  /\ acked' = <<>>
  /\ UNCHANGED <<newMessage, isTyping, isTypingTimeoutID, debouncedTyping,
                 debounceLeft, timers, nextTimerID, isConversationLoading,
                 isMessagesLoading, requests, isPending, sinceKey, sentSinceKey>>

\* the parent passes another conversationId: the hooks start loading the new
\* conversation and its messages, the component and its state stay mounted
ConversationSwitch ==
  /\ conversationId <= MaxSwitch
  /\ conversationId' = conversationId + 1
  /\ conversation' = NoConversation
  /\ isConversationLoading' = TRUE
  /\ isMessagesLoading' = TRUE
  /\ messages' = <<>>
  /\ markAsReadCalls' = MarkAsReadEffect(conversation', 0)
  /\ cb' = TypingEffect(conversation', debouncedTyping, newMessage)
  /\ owed' = {}
  /\ ev' = "switch"
  /\ acked' = <<>>
  /\ UNCHANGED <<newMessage, isTyping, isTypingTimeoutID, debouncedTyping,
                 debounceLeft, timers, nextTimerID, requests, isPending,
                 sinceKey, sentSinceKey, recipientTyping, notify>>
  /\ scrolls' = ScrollToBottom'

\* the live message list grows by one message; the scroll effect runs
MessageArrives ==
  /\ ~isMessagesLoading
  /\ Len(messages) < MaxMsgs
  /\ \E r \in Recipients, g \in Gaps : messages' = Arrived(messages, r, g)
  /\ cb' = <<>>
  /\ ev' = "message"
  /\ acked' = <<>>
  /\ UNCHANGED props
  /\ UNCHANGED <<newMessage, isTyping, isTypingTimeoutID, debouncedTyping,
                 debounceLeft, timers, nextTimerID, conversation,
                 isConversationLoading, isMessagesLoading, requests, isPending,
                 markAsReadCalls, sinceKey, sentSinceKey, owed>>
  /\ scrolls' = ScrollToBottom'

\* useMessages finishes loading, with any history
MessagesLoadedAny == MessagesLoadedWith(Histories(MaxMsgs))

\* the recipientTyping prop toggles; the scroll effect runs
RecipientTypingToggle ==
  /\ recipientTyping' = ~recipientTyping
  /\ cb' = <<>>
  /\ ev' = "recipientTyping"
  /\ acked' = <<>>
  /\ UNCHANGED <<conversationId, notify, messages>>
  /\ UNCHANGED <<newMessage, isTyping, isTypingTimeoutID, debouncedTyping,
                 debounceLeft, timers, nextTimerID, conversation,
                 isConversationLoading, isMessagesLoading, requests, isPending,
                 markAsReadCalls, sinceKey, sentSinceKey, owed>>
  /\ scrolls' = ScrollToBottom'

\* what the notification actions leave alone
chat == <<newMessage, isTyping, isTypingTimeoutID, debouncedTyping, debounceLeft,
          timers, nextTimerID, conversation, isConversationLoading,
          isMessagesLoading, requests, isPending, markAsReadCalls, sinceKey,
          sentSinceKey, owed, conversationId, messages, recipientTyping>>

NotifyStep(name) ==
  /\ cb' = <<>>
  /\ ev' = name
  /\ acked' = <<>>
  /\ scrolls' = 0
  /\ UNCHANGED chat

\* requestNotificationPermission() is called and awaits the permission
CallRequestNotificationPermission ==
  /\ notify.pc \in {"idle", "done"}
  /\ notify' = [Idle EXCEPT !.pc = "permission",
                            !.fn = "requestNotificationPermission"]
  /\ NotifyStep("callRequest")

\* Notification.requestPermission() settles; when granted, getFCMToken() is
\* called and awaits getToken
PermissionSettles ==
  /\ notify.pc = "permission"
  /\ \E perm \in {"granted", "denied", "default", "throw"} :
       notify' = IF perm = "granted"
                   THEN [notify EXCEPT !.pc = "token", !.perm = perm]
                   ELSE [notify EXCEPT
                           !.pc = "done", !.perm = perm,
                           !.result = requestNotificationPermission(perm, Throw)]
  /\ NotifyStep("permission")

\* getFCMToken() is called on its own and awaits getToken
CallGetFCMToken ==
  /\ notify.pc \in {"idle", "done"}
  /\ notify' = [Idle EXCEPT !.pc = "token", !.fn = "getFCMToken"]
  /\ NotifyStep("callGetToken")

\* getToken settles: getFCMToken ends, and with it its caller
TokenSettles ==
  /\ notify.pc = "token"
  /\ \E tok \in {"token", "throw"} :
       notify' = [notify EXCEPT
                    !.pc = "done", !.tok = tok,
                    !.result =
                      IF notify.fn = "getFCMToken" THEN getFCMToken(tok)
                      ELSE requestNotificationPermission(notify.perm,
                                                         getFCMToken(tok))]
  /\ NotifyStep("token")

Next ==
  \/ InputChange
  \/ TimerFire
  \/ DebounceFire
  \/ Tick
  \/ Submit
  \/ SendSuccess
  \/ SendFailure
  \/ ConversationLoaded
  \/ MessagesLoaded
  \/ ConversationRefetch
  \/ ConversationSwitch

Spec == Init /\ [][Next]_vars

\* handleSendMessage reached by a submit event whatever the button's state,
\* over one conversation object
NextDirect ==
  \/ InputChange
  \/ TimerFire
  \/ DebounceFire
  \/ Tick
  \/ SubmitEvent
  \/ SendSuccess
  \/ SendFailure
  \/ ConversationLoaded
  \/ MessagesLoaded

SpecDirect == Init /\ [][NextDirect]_vars

\* the message list, the recipient's typing signal and the notification
\* functions, with the draft left empty
NextMessages ==
  \/ ConversationLoaded
  \/ MessagesLoadedAny
  \/ MessageArrives
  \/ RecipientTypingToggle
  \/ ConversationSwitch
  \/ CallRequestNotificationPermission
  \/ PermissionSettles
  \/ CallGetFCMToken
  \/ TokenSettles

SpecMessages == Init /\ [][NextMessages]_vars

\* ================================================================ claims

\* C1: every call of onIsTypingChange happens with a draft that is non-empty
\* after trimming and with a conversation loaded; a blank draft emits nothing.
C1_CallbackOnlyWithText ==
  cb # <<>> => (trim(newMessage) # <<>> /\ conversation # NoConversation)

\* C1 witness: the debounce settled on true and the callback was called
C1_Witness == ev = "debounce" /\ cb = <<TRUE>>

\* C2 (as claimed): once the draft went from blank to text and stayed text,
\* onIsTypingChange(true) is called within the debounce delay, so the clock
\* started by that keystroke never passes 1 s.
C2_TrueWithinDelay == \A c \in owed : c <= DebounceDelay

\* C3 (as claimed): when the debounced typing value settles from true to
\* false over a draft with text, the callback is called with false.
C3_FalseForwarded ==
  [][(debouncedTyping /\ ~debouncedTyping' /\ trim(newMessage') # <<>>)
       => cb' = <<FALSE>>]_vars

\* C4: with no keystroke with content and no send since the last such
\* keystroke, the typing flag is false once more than 5 s have passed and the
\* debounced value is false once more than 6 s have passed.
C4_AutoClear ==
  ~sentSinceKey =>
    /\ (sinceKey > TypingExpiry => ~isTyping)
    /\ (sinceKey > TypingExpiry + DebounceDelay => ~debouncedTyping)

\* C4 witness: 7 s after the last keystroke, draft still there, both cleared
C4_Witness ==
  /\ sinceKey > TypingExpiry + DebounceDelay
  /\ ~sentSinceKey
  /\ newMessage # <<>>
  /\ ~isTyping
  /\ ~debouncedTyping

\* C5: a keystroke that leaves the draft non-empty sets the typing flag and
\* arms the expiry at 5 s under the current handle; the flag turns false only
\* by a successful send or at least 5 s after the latest such keystroke.
C5_ExpiryRestarts ==
  [][/\ (ev' = "key" /\ newMessage' # <<>>) =>
          /\ isTyping'
          /\ [id |-> isTypingTimeoutID', left |-> TypingExpiry] \in timers'
     /\ (isTyping /\ ~isTyping') =>
          (ev' = "ackOK" \/ sinceKey >= TypingExpiry)]_vars

\* C5 witness: the flag expired 5 s after a keystroke that restarted the timer
C5_Witness ==
  ev = "expire" /\ ~isTyping /\ sinceKey = TypingExpiry /\ nextTimerID > 2

\* C6: at most one typing-expiry timer is armed, and it is the one of the
\* latest reschedule, so no earlier timer can fire after it.
C6_SingleTimer ==
  /\ Cardinality(timers) <= 1
  /\ \A t \in timers : t.id = isTypingTimeoutID

\* C6 witness: a rescheduled timer is armed right after an acknowledged send
C6_Witness == ev = "ackOK" /\ timers # {} /\ nextTimerID > 2

\* C7: a submit with a blank draft sends nothing and leaves the draft, the
\* typing flag, the typing timer and the pending flag as they were.
C7_BlankSubmitNoOp ==
  [][(ev' = "submit" /\ trim(newMessage) = <<>>) =>
       UNCHANGED <<newMessage, isTyping, isTypingTimeoutID, timers, isPending,
                   requests>>]_vars

\* C7 witness: a whitespace-only draft was submitted and is still the draft
C7_Witness == ev = "submit" /\ newMessage = <<" ">> /\ requests = <<>>

\* C8 (as claimed): a submit with text adds one send and sets pending; at its
\* successful acknowledgment pending is false, the draft is empty and the
\* typing flag is false.
C8_SendThenAck ==
  [][/\ (ev' = "submit" /\ trim(newMessage) # <<>>) =>
          (Len(requests') = Len(requests) + 1 /\ isPending')
     /\ ev' = "ackOK" =>
          (~isPending' /\ newMessage' = <<>> /\ ~isTyping')]_vars

\* C9 (as claimed): after a rejected send the pending flag is false and the
\* draft is the text that was submitted.
C9_DraftKeptOnFailure ==
  [][ev' = "ackFail" => (~isPending' /\ newMessage' = acked')]_vars

\* C10: at most one send is in flight from the input box.
C10_OneInFlight == Len(requests) <= 1

\* C10 witness: a send is pending and the user has typed a new draft with text
C10_Witness ==
  Len(requests) = 1 /\ isPending /\ trim(newMessage) # <<>> /\ ev = "key"

\* C11 (as claimed): when the conversation id changes, the draft, the typing
\* flag, the typing-expiry timer and the pending flag are back at their
\* initial values.
C11_SwitchResets ==
  [][ev' = "switch" =>
       (newMessage' = <<>> /\ ~isTyping' /\ timers' = {} /\ ~isPending')]_vars

\* C12 (as claimed): for the selected conversation exactly one mark-as-read
\* call has been made once the conversation object is there, none before.
C12_OneMarkAsRead ==
  markAsReadCalls = IF conversation # NoConversation THEN 1 ELSE 0

\* C13: the view is one of Loading, NotFound, Ready: Loading exactly while
\* the conversation or the messages are loading, NotFound exactly when both
\* are done and there is no conversation, Ready exactly when both are done
\* and there is one; and in Loading a load can always finish.
C13_ViewStates ==
  /\ View \in {"Loading", "NotFound", "Ready"}
  /\ View = "Loading" <=> (isConversationLoading \/ isMessagesLoading)
  /\ View = "NotFound" <=>
       (~isConversationLoading /\ ~isMessagesLoading
          /\ conversation = NoConversation)
  /\ View = "Ready" <=>
       (~isConversationLoading /\ ~isMessagesLoading
          /\ conversation # NoConversation)
  /\ View = "Loading" => ENABLED (ConversationLoaded \/ MessagesLoaded)

\* C13 witness: the conversation was not found while the messages were
\* still loading, and the view is still Loading
C13_Witness ==
  /\ ev = "convLoaded"
  /\ conversation = NoConversation
  /\ isMessagesLoading
  /\ View = "Loading"

\* the gap in milliseconds between message i and the one before it
GapBefore(i) == messages[i].createdAt - messages[i - 1].createdAt

C15_ScrollOnEveryChange ==
  [][/\ ((messages' # messages \/ recipientTyping' # recipientTyping)
           /\ messages' # <<>>) => scrolls' = 1
     /\ (messages = <<>> /\ Len(messages') = 1) =>
          /\ scrolls' = 1
          /\ ~showTimeSeparator(messages', 1)
          /\ ~continiousTop(messages', 1)
          /\ ~continiousBottom(messages', 1)]_vars

\* C16: a finished call of requestNotificationPermission or getFCMToken has
\* returned, never thrown; requestNotificationPermission returns the token
\* only when the permission was granted and getToken succeeded, and null
\* otherwise; getFCMToken returns null when getToken throws.
C16_NeverThrows ==
  notify.pc = "done" =>
    /\ notify.result.kind = "return"
    /\ notify.result.value \in {"token", "null"}
    /\ notify.fn = "requestNotificationPermission" =>
         (notify.result.value = "token" <=>
            (notify.perm = "granted" /\ notify.tok = "token"))
    /\ notify.fn = "getFCMToken" =>
         (notify.result.value = "token" <=> notify.tok = "token")

\* C16 witness: the permission was granted, getToken threw, and
\* requestNotificationPermission returned null
C16_Witness ==
  /\ notify.pc = "done"
  /\ notify.fn = "requestNotificationPermission"
  /\ notify.perm = "granted"
  /\ notify.tok = "throw"
  /\ notify.result = Return("null")

\* C17 (as claimed): after a successful acknowledgment the typing flag is
\* false and no typing-expiry timer is armed, whatever was typed between the
\* submit and the acknowledgment.
C17_AckClearsTyping ==
  [][ev' = "ackOK" => (~isTyping' /\ timers' = {})]_vars

\* C18 (as claimed): markAsRead is called only in a render that shows the
\* Ready view, never while the view is Loading or NotFound.
C18_MarkAsReadWhenReady ==
  [][markAsReadCalls' > markAsReadCalls => View' = "Ready"]_vars

\* C19: a keystroke that leaves the draft empty changes the draft only: the
\* typing flag, the armed timer and its handle stay as they were, and no step
\* that ends with an empty draft calls onIsTypingChange.
C19_EmptyKeystrokeFrame ==
  [][/\ (ev' = "key" /\ newMessage' = <<>>) =>
          UNCHANGED <<isTyping, timers, isTypingTimeoutID, nextTimerID,
                      debounceLeft, debouncedTyping>>
     /\ newMessage' = <<>> => cb' = <<>>]_vars

\* C19 witness: the draft was just emptied by a keystroke, the typing flag is
\* still true and the timer armed before is still running
C19_Witness ==
  /\ ev = "key"
  /\ newMessage = <<>>
  /\ isTyping
  /\ \E t \in timers : t.id = isTypingTimeoutID /\ t.left < TypingExpiry

\* C20: for every index i but the last, continiousBottom of message i equals
\* continiousTop of message i + 1.
C20_GroupingSymmetric ==
  \A i \in 1..(Len(messages) - 1) :
    continiousBottom(messages, i) <=> continiousTop(messages, i + 1)

\* C20 witness: three messages to one recipient, the first two joined from
\* both sides, the last two joined from neither
C20_Witness ==
  /\ Len(messages) = 3
  /\ messages[1].recipientId = messages[2].recipientId
  /\ messages[2].recipientId = messages[3].recipientId
  /\ continiousBottom(messages, 1) /\ continiousTop(messages, 2)
  /\ ~continiousBottom(messages, 2) /\ ~continiousTop(messages, 3)

====
